---- MODULE Spec2Model ----
(***************************************************************************)
(* State-machine model of grub-core/loader/arm64/xen_boot.c: the registry  *)
(* of staged binaries (xen_hypervisor, module_head), the commands          *)
(* xen_hypervisor / xen_linux / xen_initrd / xen_xsm, the boot hook        *)
(* xen_boot and the unload hook xen_unload.                                *)
(*                                                                         *)
(* Every command runs to completion (the loader is single threaded), so    *)
(* each command is one action.  The C functions are operators that take    *)
(* the machine state as a record `s` and return the state they leave.      *)
(* Heap storage that was freed keeps its last contents (grub_free only     *)
(* rewrites the block header in front of the data); every read of freed    *)
(* storage and every free of storage that is not allocated is counted in   *)
(* the ghost fields uaf and badFree.                                       *)
(***************************************************************************)
EXTENDS Integers, Sequences, FiniteSets, TLC

(* ------------------------------ bounds -------------------------------- *)
MaxRecs == 3      \* heap slots that can hold a struct xen_boot_binary
MaxRef == 2       \* cap on the keep-alive count of my_mod

(* --------------------------- program values --------------------------- *)
NULL == 0
PrevHead == 0 - 1                \* the value &module_head of a prev field
FDT_NODE_NAME_MAX_SIZE == 49
Ids == 1..MaxRecs

Sizes == {0, 5000}               \* grub_file_size outcomes
HypAligns == {4096, 8192}        \* sh.optional_header.section_alignment
LoaderCmdlineSizes == {6}        \* grub_loader_cmdline_size outcomes
\* page-aligned addresses the page allocator hands out, 5 pages apart:
\* some are multiples of 8192 and some are not
Bases == {69632 + 20480 * k : k \in 0..(MaxRecs - 1)}

ModuleCmds == {"xen_linux", "xen_initrd", "xen_xsm"}
\* The three module commands run one handler and differ in node_info alone,
\* which neither loading nor unloading reads (no command sets MODULE_CUSTOM):
\* the life-cycle specification issues one of them.
LifeCycleCmds == {"xen_linux"}
XEN_HYPERVISOR_NAME == "xen_hypervisor"

\* default_compat_string[type]: the C string (up to the first NUL) and sizeof
default_compat_string(type) ==
  CASE type = "MODULE_IMAGE"  -> [compat_string |-> "multiboot,kernel", size |-> 34]
    [] type = "MODULE_INITRD" -> [compat_string |-> "multiboot,ramdisk", size |-> 35]
    [] type = "MODULE_XSM"    -> [compat_string |-> "xen,xsm-policy", size |-> 32]
    [] OTHER                  -> [compat_string |-> "multiboot,module", size |-> 17]

module_default_align(type) == 0

\* what grub_zalloc (sizeof (struct xen_boot_binary)) returns
ZeroRec ==
  [next |-> NULL, prev |-> NULL, name |-> "", start |-> 0, size |-> 0,
   align |-> 0, cmdline |-> NULL, cmdline_size |-> 0,
   type |-> "MODULE_IMAGE", compat_string |-> "", compat_string_size |-> 0]

(* ------------------------------ state --------------------------------- *)
VARIABLES
  heap,            \* contents of the heap slots: Ids -> struct xen_boot_binary
  live,            \* slots currently allocated
  pgLive,          \* base addresses of page allocations currently held
  cmdLive,         \* command-line buffers currently allocated (by address)
  xen_hypervisor,  \* static struct xen_boot_binary *xen_hypervisor
  module_head,     \* static struct xen_boot_binary *module_head
  loaded,          \* static int loaded
  loader,          \* which loader owns the boot/unload hooks
  refcnt,          \* grub_dl_ref minus grub_dl_unref on my_mod
  ret,             \* what the last command returned
  last,            \* the last command and the path it took
  log,             \* calls the last command made to the file reader, the
                   \* device-tree builder and the control transfer, in order
  blob,            \* the parameter blob the last command built: the
                   \* properties written, in order; empty once discarded
  uaf,             \* reads of freed records made by the last command
  badFree,         \* frees of unallocated storage made by the last command
  mode             \* "run", "fatal" (grub_fatal) or "booted"

vars == <<heap, live, pgLive, cmdLive, xen_hypervisor, module_head, loaded,
          loader, refcnt, ret, last, log, blob, uaf, badFree, mode>>

Ev(op, a, b) == [op |-> op, a |-> a, b |-> b]

\* The machine state at the start of a command.  detect and staleNext choose
\* among the outcomes undefined behaviour can have: whether grub_free notices
\* a block that is not allocated (and calls grub_fatal), and whether the next
\* field read from a freed record is the NULL grub_list_remove stored there
\* (staleNext) or the link the record held while it was in the list.
\* fdtFail is the index of the device-tree builder call that fails (0: none).
Cur(detect, staleNext, fdtFail) ==
  [heap |-> heap, live |-> live, pgLive |-> pgLive, cmdLive |-> cmdLive,
   xen_hypervisor |-> xen_hypervisor, module_head |-> module_head,
   loaded |-> loaded, loader |-> loader, refcnt |-> refcnt,
   grub_errno |-> "NONE", ret |-> "NONE", path |-> "", log |-> <<>>,
   blob |-> <<>>,
   uaf |-> 0, badFree |-> 0, mode |-> mode,
   detect |-> detect, staleNext |-> staleNext,
   fdtFail |-> fdtFail, fdtCalls |-> 0]

Log(s, op, a, b) == [s EXCEPT !.log = Append(@, Ev(op, a, b))]

\* grub_error (err, ...)
grub_error(s, err) == [s EXCEPT !.grub_errno = err]

\* a read through pointer b: counted when the record was freed
Rd(s, b) == IF b \in s.live THEN s ELSE [s EXCEPT !.uaf = @ + 1]

(* ------------------------- memory placement --------------------------- *)
\* ALIGN_UP (start, align)
ALIGN_UP(start, align) == ((start + align - 1) \div align) * align

\* a variant that rounds down to a multiple of align
xen_boot_address_align_down(start, align) ==
  IF align # 0 THEN (start \div align) * align ELSE start

xen_boot_address_align(start, align) ==
  IF align # 0 THEN ALIGN_UP(start, align) ELSE start

\* GRUB_EFI_BYTES_TO_PAGES (bytes)
GRUB_EFI_BYTES_TO_PAGES(bytes) == (bytes + 4095) \div 4096

\* a variant that asks for the pages of the image alone
pages_for_size(r) == GRUB_EFI_BYTES_TO_PAGES(r.size)

\* the page count xen_boot_binary_load asks the allocator for, for record r
pages_to_allocate(r) == GRUB_EFI_BYTES_TO_PAGES(r.size + r.align)

\* the address xen_boot_binary_load reads the image into
read_address(r) == xen_boot_address_align(r.start, r.align)

\* the page count single_binary_unload hands to grub_efi_free_pages
pages_to_free(r) == GRUB_EFI_BYTES_TO_PAGES(r.size + r.align)

(* ----------------------------- sequencing ----------------------------- *)
\* A C function body is a sequence of statements, each working on the state
\* the one before it left.  Bind (v, F) is F applied to the value of v: v is
\* computed once and then named, as a C local is.
Only(S) == CHOOSE x \in S : TRUE
Bind(v, F(_)) == Only({F(x) : x \in {v}})

(* ------------------------- heap collaborators ------------------------- *)
FreeIds(s) == Ids \ s.live

\* grub_zalloc of a record: the lowest free slot, zeroed; NULL when ok is
\* false or the heap is exhausted
zalloc_result(s, ok) ==
  IF ok /\ FreeIds(s) # {}
  THEN CHOOSE i \in FreeIds(s) : \A j \in FreeIds(s) : i <= j
  ELSE NULL

grub_zalloc(s, p) ==
  IF p = NULL THEN grub_error(s, "OUT_OF_MEMORY")
  ELSE [s EXCEPT !.live = @ \cup {p}, !.heap[p] = ZeroRec]

\* grub_free (p) of a record
grub_free(s, p) ==
  IF p \in s.live
  THEN [s EXCEPT !.live = @ \ {p}]
  ELSE [s EXCEPT !.badFree = @ + 1, !.mode = IF s.detect THEN "fatal" ELSE @]

\* grub_free (binary->cmdline)
grub_free_cmdline(s, c) ==
  IF c \in s.cmdLive
  THEN [s EXCEPT !.cmdLive = @ \ {c}]
  ELSE [s EXCEPT !.badFree = @ + 1, !.mode = IF s.detect THEN "fatal" ELSE @]

\* grub_free ((void *) binary->node_info.compat_string): no command stores a
\* heap string there; grub_free (NULL) returns at once
grub_free_compat_string(s, c) ==
  IF c = "" THEN s
  ELSE [s EXCEPT !.badFree = @ + 1, !.mode = IF s.detect THEN "fatal" ELSE @]

\* grub_efi_free_pages (address, pages)
grub_efi_free_pages(s, address, pages) ==
  IF address \in s.pgLive
  THEN [s EXCEPT !.pgLive = @ \ {address}]
  ELSE [s EXCEPT !.badFree = @ + 1]

\* grub_efi_allocate_pages (0, pages): the firmware grants the lowest free
\* region, or nothing (ok false, or no region left); a request for no pages
\* that is granted holds no memory
allocate_pages_result(s, ok) ==
  IF ok /\ Bases \ s.pgLive # {}
  THEN CHOOSE b \in Bases \ s.pgLive : \A c \in Bases \ s.pgLive : b <= c
  ELSE 0

grub_efi_allocate_pages(s, ok, pages) ==
  LET base == allocate_pages_result(s, ok)
  IN [s EXCEPT !.pgLive = IF base # 0 /\ pages > 0 THEN @ \cup {base} ELSE @]

(* ------------------------------ the list ------------------------------ *)
\* grub_list_remove (item)
grub_list_remove(s, item) ==
  Bind(s.heap[item], LAMBDA r :
  Bind(IF r.prev = PrevHead THEN [s EXCEPT !.module_head = r.next]
       ELSE IF r.prev # NULL THEN [s EXCEPT !.heap[r.prev].next = r.next]
       ELSE s, LAMBDA s1 :
  Bind(IF r.next # NULL THEN [s1 EXCEPT !.heap[r.next].prev = r.prev]
       ELSE s1, LAMBDA s2 :
    [s2 EXCEPT !.heap[item].next = NULL, !.heap[item].prev = NULL])))

RECURSIVE ListTail(_, _, _)
ListTail(s, b, fuel) ==
  IF fuel = 0 \/ s.heap[b].next = NULL THEN b
  ELSE ListTail(s, s.heap[b].next, fuel - 1)

\* grub_list_push (&module_head, item)
grub_list_push(s, item) ==
  IF s.module_head = NULL
  THEN [s EXCEPT !.module_head = item,
                 !.heap[item].prev = PrevHead, !.heap[item].next = NULL]
  ELSE Bind(ListTail(s, s.module_head, MaxRecs), LAMBDA t :
         [s EXCEPT !.heap[t].next = item,
                   !.heap[item].prev = t, !.heap[item].next = NULL])

\* the records FOR_LIST_ELEMENTS (module, module_head) visits, in order
RECURSIVE ListFrom(_, _, _)
ListFrom(h, b, fuel) ==
  IF b = NULL \/ fuel = 0 THEN <<>>
  ELSE <<b>> \o ListFrom(h, h[b].next, fuel - 1)

Modules(h, head) == ListFrom(h, head, MaxRecs)

SeqSet(q) == {q[i] : i \in 1..Len(q)}

(* ------------------------------ unload -------------------------------- *)
\* r is *binary as it was when single_binary_unload was entered
single_binary_unload(s, binary) ==
  IF binary = NULL \/ s.mode # "run" THEN s
  ELSE
    Bind(s.heap[binary], LAMBDA r :
    Bind(IF r.start # 0 /\ r.size > 0
         THEN grub_efi_free_pages(Rd(s, binary), r.start, pages_to_free(r))
         ELSE Rd(s, binary), LAMBDA s1 :
    Bind(IF r.cmdline # NULL /\ r.cmdline_size > 0
         THEN grub_free_cmdline(s1, r.cmdline)
         ELSE s1, LAMBDA s2 :
    Bind(IF s2.mode = "run" /\ r.type = "MODULE_CUSTOM"
         THEN grub_free_compat_string(s2, r.compat_string)
         ELSE s2, LAMBDA s3 :
    Bind(IF s3.mode = "run" /\ r.name # XEN_HYPERVISOR_NAME
         THEN grub_list_remove(s3, binary)
         ELSE s3, LAMBDA s4 :
      IF s4.mode = "run" THEN grub_free(s4, binary) ELSE s4)))))

\* FOR_LIST_ELEMENTS (binary, module_head) single_binary_unload (binary);
\* the loop advances with binary->next after the record was freed
RECURSIVE unload_loop(_, _, _)
unload_loop(s, binary, fuel) ==
  IF binary = NULL \/ fuel = 0 \/ s.mode # "run" THEN s
  ELSE
    Bind(s.heap[binary].next, LAMBDA before :
    Bind(single_binary_unload(s, binary), LAMBDA s1 :
    Bind(Rd(s1, binary), LAMBDA s2 :
    Bind(IF binary \in s1.live \/ s1.staleNext
         THEN s1.heap[binary].next
         ELSE before, LAMBDA after :
      unload_loop(s2, after, fuel - 1)))))

all_binaries_unload(s) ==
  Bind(unload_loop(s, s.module_head, MaxRecs), LAMBDA s1 :
    IF s1.xen_hypervisor # NULL
    THEN single_binary_unload(s1, s1.xen_hypervisor)
    ELSE s1)

\* grub_fdt_unload (): the blob lives in the device-tree collaborator; the
\* call is recorded
grub_fdt_unload(s) == Log([s EXCEPT !.blob = <<>>], "fdt_unload", 0, 0)

grub_dl_ref(s) == [s EXCEPT !.refcnt = @ + 1]
grub_dl_unref(s) == [s EXCEPT !.refcnt = @ - 1]

xen_unload(s) ==
  Bind([s EXCEPT !.loaded = 0], LAMBDA s0 :
  Bind(all_binaries_unload(s0), LAMBDA s1 :
    IF s1.mode # "run" THEN s1
    ELSE [grub_dl_unref(grub_fdt_unload(s1)) EXCEPT !.ret = "NONE"]))

(* ------------------------------- load --------------------------------- *)
\* in: size (grub_file_size), base (whether the page allocator grants), read
\* (whether the image read returns size bytes), argc, cmdsize
\* (grub_loader_cmdline_size), cmd (whether the command-line buffer is granted)
xen_boot_binary_load(s, binary, in) ==
  Bind([s EXCEPT !.heap[binary].size = in.size], LAMBDA s1 :
  Bind(allocate_pages_result(s1, in.base), LAMBDA start :
  Bind([grub_efi_allocate_pages(s1, in.base,
                                pages_to_allocate(s1.heap[binary]))
          EXCEPT !.heap[binary].start = start], LAMBDA s2 :
    IF start = 0
    THEN [grub_error(s2, "OUT_OF_MEMORY") EXCEPT !.path = "pagealloc"]
    ELSE
      Bind(Log(s2, "file_read", read_address(s2.heap[binary]), in.size),
           LAMBDA s3 :
        IF in.size > 0 /\ ~in.read
        THEN [grub_error(single_binary_unload(s3, binary), "BAD_OS")
                EXCEPT !.path = "read"]
        ELSE IF in.argc > 1
        THEN
          Bind(IF in.cmd THEN binary ELSE NULL, LAMBDA c :
          Bind([s3 EXCEPT !.heap[binary].cmdline_size = in.cmdsize,
                          !.heap[binary].cmdline = c,
                          !.cmdLive = IF c # NULL THEN @ \cup {c} ELSE @],
               LAMBDA s4 :
            IF c = NULL
            THEN [grub_error(single_binary_unload(s4, binary),
                             "OUT_OF_MEMORY") EXCEPT !.path = "cmdalloc"]
            ELSE [s4 EXCEPT !.grub_errno = "NONE", !.path = "ok"]))
        ELSE [s3 EXCEPT !.heap[binary].cmdline_size = 0,
                        !.heap[binary].cmdline = NULL,
                        !.grub_errno = "NONE", !.path = "ok"]))))

(* -------------------------- module commands --------------------------- *)
set_module_type(s, cmd, module) ==
  IF cmd = "xen_linux" THEN [s EXCEPT !.heap[module].type = "MODULE_IMAGE"]
  ELSE IF cmd = "xen_initrd" THEN [s EXCEPT !.heap[module].type = "MODULE_INITRD"]
  ELSE IF cmd = "xen_xsm" THEN [s EXCEPT !.heap[module].type = "MODULE_XSM"]
  ELSE s

\* a variant of the guard that tests the slot instead of the flag
hypervisor_slot_empty(s) == s.xen_hypervisor = NULL

\* if (!loaded)
hypervisor_not_loaded(s) == s.loaded = 0

\* a variant of the failure path that releases the whole registry, as the
\* failure path of grub_cmd_xen_hypervisor does
module_fail_release_all(s, module, path) ==
  Bind(s, LAMBDA s1 :
    [(IF s1.grub_errno # "NONE"
      THEN all_binaries_unload([s1 EXCEPT !.loaded = 0])
      ELSE s1) EXCEPT !.ret = s1.grub_errno, !.path = path])

\* the code after the label fail: of grub_cmd_xen_module
module_fail(s, module, path) ==
  Bind(s, LAMBDA s1 :
    [(IF s1.grub_errno # "NONE" THEN single_binary_unload(s1, module)
      ELSE s1) EXCEPT !.ret = s1.grub_errno, !.path = path])

\* a variant that gives every module the compatible string of the kernel image
set_node_info_image(s, module) ==
  Bind(default_compat_string("MODULE_IMAGE"), LAMBDA dflt :
    [s EXCEPT
       !.heap[module].compat_string = dflt.compat_string,
       !.heap[module].compat_string_size = dflt.size,
       !.heap[module].name = dflt.compat_string,
       !.heap[module].align = module_default_align(s.heap[module].type)])

\* the node_info, name and align the switch on node_info.type stores
set_node_info(s, module) ==
  Bind(s.heap[module].type, LAMBDA type :
  Bind(default_compat_string(type), LAMBDA dflt :
    [s EXCEPT
       !.heap[module].compat_string =
          IF type = "MODULE_CUSTOM" THEN @ ELSE dflt.compat_string,
       !.heap[module].compat_string_size =
          IF type = "MODULE_CUSTOM" THEN @ ELSE dflt.size,
       !.heap[module].name =
          IF type = "MODULE_CUSTOM" THEN @ ELSE dflt.compat_string,
       !.heap[module].align = module_default_align(type)]))

grub_cmd_xen_module(s, cmd, in) ==
  IF in.argc = 0
  THEN module_fail(grub_error(s, "BAD_ARGUMENT"), NULL, "noarg")
  ELSE IF hypervisor_not_loaded(s)
  THEN module_fail(grub_error(s, "BAD_ARGUMENT"), NULL, "notloaded")
  ELSE
    Bind(zalloc_result(s, in.zalloc), LAMBDA module :
    Bind(grub_zalloc(s, module), LAMBDA s1 :
      IF module = NULL
      THEN [s1 EXCEPT !.ret = s1.grub_errno, !.path = "recalloc"]
      ELSE
        Bind(set_module_type(s1, cmd, module), LAMBDA s2 :
          IF s2.heap[module].type \notin {"MODULE_IMAGE", "MODULE_INITRD",
                                          "MODULE_XSM", "MODULE_CUSTOM"}
          THEN [s2 EXCEPT !.ret = "BAD_ARGUMENT", !.path = "type"]
          ELSE
            Bind(set_node_info(s2, module), LAMBDA s3 :
              IF ~in.open
              THEN module_fail(grub_error(s3, "FILE_NOT_FOUND"), module,
                               "open")
              ELSE
                Bind(xen_boot_binary_load(s3, module, in), LAMBDA s4 :
                Bind(IF s4.grub_errno = "NONE" /\ s4.mode = "run"
                     THEN grub_list_push(s4, module)
                     ELSE s4, LAMBDA s5 :
                  module_fail(s5, module, s4.path)))))))

(* ------------------------- the generic loader ------------------------- *)
\* grub_loader_unset (): runs the registered unload hook and clears the hooks
grub_loader_unset(s) ==
  Bind(IF s.loader = "xen" THEN xen_unload(s) ELSE s, LAMBDA s1 :
    IF s1.mode # "run" THEN s1 ELSE [s1 EXCEPT !.loader = "none"])

\* grub_loader_set (xen_boot, xen_unload, 0)
grub_loader_set(s) == [s EXCEPT !.loader = "xen"]

(* ------------------------ xen_hypervisor command ---------------------- *)
\* loaded = 0; all_binaries_unload (); grub_dl_unref (my_mod);
hypervisor_release(s) ==
  Bind(all_binaries_unload([s EXCEPT !.loaded = 0]), LAMBDA u :
    IF u.mode = "run" THEN grub_dl_unref(u) ELSE u)

\* the code after the label fail: of grub_cmd_xen_hypervisor
hypervisor_fail(s, path) ==
  Bind(s, LAMBDA s1 :
    [(IF s1.grub_errno # "NONE" THEN hypervisor_release(s1) ELSE s1)
       EXCEPT !.ret = s1.grub_errno, !.path = path])

\* the code from grub_loader_unset () to the label fail:
hypervisor_stage(s2, in) ==
  Bind(grub_loader_unset(s2), LAMBDA s3 :
    IF s3.mode # "run" THEN [s3 EXCEPT !.path = "unset"]
    ELSE
  Bind(zalloc_result(s3, in.zalloc), LAMBDA p :
  Bind([grub_zalloc(s3, p) EXCEPT !.xen_hypervisor = p], LAMBDA s4 :
    IF p = NULL
    THEN [s4 EXCEPT !.ret = s4.grub_errno, !.path = "recalloc"]
    ELSE
      Bind([s4 EXCEPT !.heap[p].name = XEN_HYPERVISOR_NAME,
                      !.heap[p].align = in.align], LAMBDA s5 :
      Bind(xen_boot_binary_load(s5, p, in), LAMBDA s6 :
      Bind(IF s6.grub_errno = "NONE" /\ s6.mode = "run"
           THEN [grub_loader_set(s6) EXCEPT !.loaded = 1]
           ELSE s6, LAMBDA s7 :
        hypervisor_fail(s7, s6.path)))))))

\* in: as for xen_boot_binary_load, and open (grub_file_open succeeds), hdr
\* (the header read: "ok", "short" without an error, "error"), check
\* (grub_arm64_uefi_check_image), align (section_alignment), zalloc.
\* A file whose header was read in full is not empty.
grub_cmd_xen_hypervisor(s0, in) ==
  Bind(grub_dl_ref(s0), LAMBDA s2 :
    IF in.argc = 0
    THEN hypervisor_fail(grub_error(s2, "BAD_ARGUMENT"), "noarg")
    ELSE IF ~in.open
    THEN hypervisor_fail(grub_error(s2, "FILE_NOT_FOUND"), "open")
    ELSE IF in.hdr = "error"
    THEN hypervisor_fail(grub_error(s2, "READ_ERROR"), "hdr")
    ELSE IF in.hdr = "short"
    THEN hypervisor_fail(s2, "hdr")
    ELSE IF ~in.check
    THEN hypervisor_fail(grub_error(s2, "BAD_OS"), "check")
    ELSE hypervisor_stage(s2, in))

(* ----------------------- boot-parameter assembly ---------------------- *)
\* The device-tree builder is a collaborator: its calls are numbered in the
\* order they are made and call number fdtFail fails.
FdtOk(s) == s.fdtFail # s.fdtCalls + 1
FdtCall(s) == [s EXCEPT !.fdtCalls = @ + 1]

\* a property written into the blob: the node's name, the property's name and
\* its value (a string and its length, or two numbers)
Prop(node, prop, str, a, b) ==
  [node |-> node, prop |-> prop, str |-> str, a |-> a, b |-> b]

SetProp(s, node, prop, str, a, b) ==
  [s EXCEPT !.fdtCalls = @ + 1,
            !.blob = Append(@, Prop(node, prop, str, a, b))]

IoError(s) == [s EXCEPT !.ret = "IO", !.grub_errno = "IO"]

\* returns with ret = "NONE" or "IO"
prepare_xen_hypervisor_params(s) ==
  IF ~FdtOk(s)                       \* chosen node: find, else add
  THEN IoError(FdtCall(s))
  ELSE
    Bind(Rd(FdtCall(s), s.xen_hypervisor), LAMBDA s1 :
    Bind(s.heap[s.xen_hypervisor], LAMBDA h :
      IF ~FdtOk(s1)                  \* grub_fdt_set_prop bootargs
      THEN IoError(FdtCall(s1))
      ELSE [SetProp(s1, <<"chosen">>, "bootargs", "", h.cmdline,
                    h.cmdline_size) EXCEPT !.ret = "NONE"]))

\* "%lx": the lowercase hexadecimal digits of n, without leading zeros
HexDigit(d) ==
  CASE d = 0 -> "0" [] d = 1 -> "1" [] d = 2 -> "2" [] d = 3 -> "3"
    [] d = 4 -> "4" [] d = 5 -> "5" [] d = 6 -> "6" [] d = 7 -> "7"
    [] d = 8 -> "8" [] d = 9 -> "9" [] d = 10 -> "a" [] d = 11 -> "b"
    [] d = 12 -> "c" [] d = 13 -> "d" [] d = 14 -> "e" [] OTHER -> "f"

RECURSIVE Hex(_)
Hex(n) == IF n < 16 THEN <<HexDigit(n)>>
          ELSE Append(Hex(n \div 16), HexDigit(n % 16))

\* grub_snprintf (module_name, FDT_NODE_NAME_MAX_SIZE, "module@%lx", addr):
\* the name, and the length grub_snprintf returns
module_name(addr) == <<"module@">> \o Hex(addr)
module_name_len(addr) == 7 + Len(Hex(addr))

\* the property writes of prepare_xen_module_params, after the chosen node
\* was found (s1); the result of the module-node lookup is not checked
module_props(s1, m, addr, name) ==
  Bind(FdtOk(s1), LAMBDA nodeOk :                      \* module node
  Bind(FdtCall(s1), LAMBDA s2 :
    IF ~nodeOk \/ ~FdtOk(s2) THEN IoError(FdtCall(s2)) \* compatible
    ELSE
      Bind(SetProp(s2, name, "compatible", m.compat_string,
                   m.compat_string_size, 0), LAMBDA s3 :
        IF ~FdtOk(s3) THEN IoError(FdtCall(s3))        \* reg
        ELSE
          Bind(SetProp(s3, name, "reg", "", addr, m.size), LAMBDA s4 :
            IF m.cmdline # NULL /\ m.cmdline_size > 0
            THEN IF ~FdtOk(s4) THEN IoError(FdtCall(s4)) \* bootargs
                 ELSE [SetProp(s4, name, "bootargs", "", m.cmdline,
                               m.cmdline_size + 1) EXCEPT !.ret = "NONE"]
            ELSE [s4 EXCEPT !.ret = "NONE"]))))

prepare_xen_module_params(s, module) ==
  Bind(s.heap[module], LAMBDA m :
  Bind(xen_boot_address_align(m.start, m.align), LAMBDA addr :
    IF module_name_len(addr) < 8 THEN IoError(s)
    ELSE IF ~FdtOk(s) THEN IoError(FdtCall(s))         \* chosen node
    ELSE module_props(FdtCall(s), m, addr, module_name(addr))))

\* a variant of the failure path that keeps the blob
finalize_fail_keep(s, path) ==
  [grub_error(s, "IO") EXCEPT !.ret = "IO", !.path = path]

\* the code after the label fail: of finalize_params_xen_boot
finalize_fail(s, path) ==
  [grub_error(grub_fdt_unload(s), "IO") EXCEPT !.ret = "IO", !.path = path]

\* the second FOR_LIST_ELEMENTS loop; ret = "NONE" when every module was written
RECURSIVE module_params_loop(_, _, _)
module_params_loop(s, module, fuel) ==
  IF module = NULL \/ fuel = 0 THEN [s EXCEPT !.ret = "NONE"]
  ELSE
    Bind(s.heap[module], LAMBDA m :
      IF m.start # 0 /\ m.size > 0
      THEN Bind(prepare_xen_module_params(s, module), LAMBDA s1 :
             IF s1.ret # "NONE" THEN [s1 EXCEPT !.path = "module"]
             ELSE module_params_loop(s1, m.next, fuel - 1))
      ELSE [s EXCEPT !.ret = "IO", !.path = "info"])

\* the first FOR_LIST_ELEMENTS loop: the size estimate
RECURSIVE additional_size_loop(_, _, _)
additional_size_loop(h, module, fuel) ==
  IF module = NULL \/ fuel = 0 THEN 0
  ELSE 6 * FDT_NODE_NAME_MAX_SIZE + h[module].compat_string_size
       + h[module].cmdline_size
       + additional_size_loop(h, h[module].next, fuel - 1)

\* a variant whose module loop starts at the second record of the list
finalize_after_load_skip_head(s1) ==
  IF s1.xen_hypervisor = NULL THEN finalize_fail(s1, "nohyp")
  ELSE
    Bind(prepare_xen_hypervisor_params(s1), LAMBDA s2 :
      IF s2.ret # "NONE" THEN finalize_fail(s2, "hyp")
      ELSE
        Bind(module_params_loop(
               s2, IF s2.module_head = NULL THEN NULL
                   ELSE s2.heap[s2.module_head].next, MaxRecs), LAMBDA s3 :
          IF s3.ret # "NONE" THEN finalize_fail(s3, s3.path)
          ELSE IF FdtOk(s3)
          THEN [Log(FdtCall(s3), "fdt_install", 0, 0)
                  EXCEPT !.ret = "NONE", !.path = "ok"]
          ELSE finalize_fail(FdtCall(s3), "install")))

\* the code of finalize_params_xen_boot after grub_fdt_load succeeded (s1)
finalize_after_load(s1) ==
  IF s1.xen_hypervisor = NULL THEN finalize_fail(s1, "nohyp")
  ELSE
    Bind(prepare_xen_hypervisor_params(s1), LAMBDA s2 :
      IF s2.ret # "NONE" THEN finalize_fail(s2, "hyp")
      ELSE
        Bind(module_params_loop(s2, s2.module_head, MaxRecs), LAMBDA s3 :
          IF s3.ret # "NONE" THEN finalize_fail(s3, s3.path)
          ELSE IF FdtOk(s3)          \* grub_fdt_install
          THEN [Log(FdtCall(s3), "fdt_install", 0, 0)
                  EXCEPT !.ret = "NONE", !.path = "ok"]
          ELSE finalize_fail(FdtCall(s3), "install")))

\* line 257 reads xen_hypervisor->cmdline_size before the slot is tested
finalize_params_xen_boot(s) ==
  Bind(s.xen_hypervisor, LAMBDA hyp :
  Bind(Rd(s, hyp), LAMBDA s0 :
  Bind(4096 + FDT_NODE_NAME_MAX_SIZE
       + (IF hyp = NULL THEN 0 ELSE s.heap[hyp].cmdline_size)
       + additional_size_loop(s.heap, s.module_head, MaxRecs),
       LAMBDA additional_size :
    IF hyp = NULL /\ s.detect THEN [s0 EXCEPT !.mode = "fatal"]
    ELSE IF ~FdtOk(s0)               \* grub_fdt_load
    THEN [grub_error(FdtCall(s0), "IO") EXCEPT !.ret = "IO",
                                               !.path = "fdt_load"]
    ELSE Bind(Log(FdtCall(s0), "fdt_load", additional_size, 0),
              LAMBDA s1 : finalize_after_load(s1)))))

\* grub_arm64_uefi_boot_image (start, size, cmdline): returns (an error) or
\* never returns
grub_arm64_uefi_boot_image(s1, returns) ==
  Bind(s1.heap[s1.xen_hypervisor], LAMBDA h :
  Bind(Log(Log(Rd(s1, s1.xen_hypervisor), "boot_image", h.start, h.size),
           "boot_args", h.cmdline, h.cmdline_size), LAMBDA s2 :
    IF returns THEN [s2 EXCEPT !.ret = "BAD_OS", !.path = "returned"]
    ELSE [s2 EXCEPT !.mode = "booted", !.path = "booted"]))

\* a variant of xen_boot that does not look at what the assembly returned
xen_boot_unchecked(s, returns) ==
  Bind(finalize_params_xen_boot(s), LAMBDA s1 :
    IF s1.mode # "run" THEN s1
    ELSE grub_arm64_uefi_boot_image(s1, returns))

xen_boot(s, returns) ==
  Bind(finalize_params_xen_boot(s), LAMBDA s1 :
    IF s1.mode # "run" \/ s1.ret # "NONE" THEN s1
    ELSE grub_arm64_uefi_boot_image(s1, returns))

(* ------------------------------ actions ------------------------------- *)
\* The state a command leaves.  A slot that is free and that no pointer of the
\* program refers to any more is shown zeroed: grub_zalloc zeroes it before it
\* is read again.  The slot a dangling xen_hypervisor refers to keeps its
\* contents.
Commit(s, cmd) ==
  /\ heap' = [i \in Ids |-> IF i \in s.live \/ i = s.xen_hypervisor
                             THEN s.heap[i] ELSE ZeroRec]
  /\ live' = s.live
  /\ pgLive' = s.pgLive
  /\ cmdLive' = s.cmdLive
  /\ xen_hypervisor' = s.xen_hypervisor
  /\ module_head' = s.module_head
  /\ loaded' = s.loaded
  /\ loader' = s.loader
  /\ refcnt' = s.refcnt
  /\ ret' = s.ret
  /\ last' = [cmd |-> cmd, path |-> s.path]
  /\ log' = s.log
  /\ blob' = s.blob
  /\ uaf' = s.uaf
  /\ badFree' = s.badFree
  /\ mode' = s.mode

\* What a specification lets the environment do: the image sizes, the
\* hypervisor alignments, the module commands, the argument counts, and
\* whether the collaborators of the loading commands may fail (allocation
\* failures, short reads, unreadable or rejected images).
Profile(sizes, aligns, cmds, argcs, faults) ==
  [sizes |-> sizes, aligns |-> aligns, cmds |-> cmds, argcs |-> argcs,
   faults |-> faults]

\* the inputs of xen_boot_binary_load, one per path through it
LoadInputs(sizes, argcs, faults) ==
  {[size |-> sz, base |-> FALSE, read |-> TRUE, argc |-> 1, cmdsize |-> 0,
    cmd |-> TRUE] : sz \in IF faults THEN sizes ELSE sizes \cap {0}}
  \cup {[size |-> sz, base |-> TRUE, read |-> FALSE, argc |-> 1, cmdsize |-> 0,
         cmd |-> TRUE] : sz \in IF faults THEN sizes \ {0} ELSE {}}
  \cup {[size |-> sz, base |-> TRUE, read |-> TRUE, argc |-> 1, cmdsize |-> 0,
         cmd |-> TRUE] : sz \in sizes}
  \cup {[size |-> sz, base |-> TRUE, read |-> TRUE, argc |-> 2, cmdsize |-> c,
         cmd |-> k] : sz \in IF 2 \in argcs THEN sizes ELSE {},
                      c \in LoaderCmdlineSizes,
                      k \in IF faults THEN BOOLEAN ELSE {TRUE}}

NoLoad == [size |-> 0, base |-> FALSE, read |-> TRUE, argc |-> 1, cmdsize |-> 0,
           cmd |-> TRUE]

Ext(l, argc, open, hdr, check, align, zalloc) ==
  [size |-> l.size, base |-> l.base, read |-> l.read, argc |-> argc,
   cmdsize |-> l.cmdsize, cmd |-> l.cmd, open |-> open, hdr |-> hdr,
   check |-> check, align |-> align, zalloc |-> zalloc]

NoArgInputs(P) ==
  IF 0 \in P.argcs THEN {Ext(NoLoad, 0, TRUE, "ok", TRUE, 0, TRUE)} ELSE {}

HypervisorInputs(P) ==
  NoArgInputs(P)
  \cup (IF P.faults
        THEN {Ext(NoLoad, 1, FALSE, "ok", TRUE, 0, TRUE),
              Ext(NoLoad, 1, TRUE, "short", TRUE, 0, TRUE),
              Ext(NoLoad, 1, TRUE, "error", TRUE, 0, TRUE),
              Ext(NoLoad, 1, TRUE, "ok", FALSE, 0, TRUE),
              Ext(NoLoad, 1, TRUE, "ok", TRUE, 0, FALSE)}
        ELSE {})
  \cup {Ext(l, l.argc, TRUE, "ok", TRUE, a, TRUE) :
           l \in LoadInputs(P.sizes \ {0}, P.argcs, P.faults), a \in P.aligns}

ModuleInputs(P) ==
  NoArgInputs(P)
  \cup (IF P.faults
        THEN {Ext(NoLoad, 1, FALSE, "ok", TRUE, 0, TRUE),
              Ext(NoLoad, 1, TRUE, "ok", TRUE, 0, FALSE)}
        ELSE {})
  \cup {Ext(l, l.argc, TRUE, "ok", TRUE, 0, TRUE) :
           l \in LoadInputs(P.sizes, P.argcs, P.faults)}

\* The states a command can leave: one when it meets no undefined behaviour,
\* otherwise one for each outcome the undefined behaviour can have.
Outcomes(F(_), fdtFail) ==
  Bind(Bind(Cur(FALSE, TRUE, fdtFail), F), LAMBDA r :
    IF r.uaf = 0 /\ r.badFree = 0 THEN {r}
    ELSE {F(c) : c \in {Cur(d, n, fdtFail) : d \in BOOLEAN, n \in BOOLEAN}})

\* the operator issues xen_hypervisor
CmdXenHypervisor(P) ==
  /\ mode = "run"
  /\ refcnt < MaxRef
  /\ \E in \in HypervisorInputs(P) :
       \E r \in Outcomes(LAMBDA s : grub_cmd_xen_hypervisor(s, in), 0) :
         Commit(r, "xen_hypervisor")

\* the operator issues xen_linux, xen_initrd or xen_xsm
CmdXenModule(P) ==
  /\ mode = "run"
  /\ \E cmd \in P.cmds, in \in ModuleInputs(P) :
       \E r \in Outcomes(LAMBDA s : grub_cmd_xen_module(s, cmd, in), 0) :
         Commit(r, "xen_module")

\* the loader's boot trigger (grub_loader_boot) runs the registered boot hook
Boot ==
  /\ mode = "run"
  /\ loader = "xen"
  /\ \E fdtFail \in 0..(4 + 5 * Len(Modules(heap, module_head))) :
       \E returns \in IF fdtFail = 0 THEN BOOLEAN ELSE {TRUE} :
         \E r \in Outcomes(LAMBDA s : xen_boot(s, returns), fdtFail) :
           Commit(r, "boot")

\* the loader's unload trigger (grub_loader_unset)
LoaderUnset ==
  /\ mode = "run"
  /\ loader # "none"
  /\ \E r \in Outcomes(LAMBDA s : grub_loader_unset(s), 0) :
       Commit([r EXCEPT !.path = loader], "unset")

\* another loader registers itself (grub_loader_set from another module):
\* the hooks registered before are unloaded first
OtherLoaderSet ==
  /\ mode = "run"
  /\ loader # "other"
  /\ \E r \in Outcomes(LAMBDA s : grub_loader_unset(s), 0) :
       Commit(IF r.mode = "run"
              THEN [r EXCEPT !.loader = "other", !.path = loader]
              ELSE [r EXCEPT !.path = loader], "other")

Init ==
  /\ heap = [i \in Ids |-> ZeroRec]
  /\ live = {}
  /\ pgLive = {}
  /\ cmdLive = {}
  /\ xen_hypervisor = NULL
  /\ module_head = NULL
  /\ loaded = 0
  /\ loader = "none"
  /\ refcnt = 0
  /\ ret = "NONE"
  /\ last = [cmd |-> "init", path |-> ""]
  /\ log = <<>>
  /\ blob = <<>>
  /\ uaf = 0
  /\ badFree = 0
  /\ mode = "run"

\* The life cycle: every command, every collaborator failure, every
\* hypervisor alignment; module images are not empty.
LifeCycle == Profile(Sizes \ {0}, HypAligns, LifeCycleCmds, {0, 1, 2}, TRUE)

Next ==
  \/ CmdXenHypervisor(LifeCycle)
  \/ CmdXenModule(LifeCycle)
  \/ Boot
  \/ LoaderUnset
  \/ OtherLoaderSet

Spec == Init /\ [][Next]_vars

\* Booting: module images may be empty and the page allocator may grant or
\* refuse a request for no pages; the device-tree builder and the control
\* transfer may fail at any call; loading meets no other failure.
Booting == Profile(Sizes, {8192}, LifeCycleCmds, {0, 1, 2}, FALSE)

NextBoot ==
  \/ CmdXenHypervisor(Booting)
  \/ CmdXenModule(Booting)
  \/ Boot
  \/ LoaderUnset
  \/ OtherLoaderSet

SpecBoot == Init /\ [][NextBoot]_vars

\* Parameters: the three module commands, with and without arguments, on
\* images that are not empty; the device-tree builder and the control
\* transfer may fail at any call; loading meets no other failure.
Params == Profile(Sizes \ {0}, {8192}, ModuleCmds, {0, 1, 2}, FALSE)

NextParams ==
  \/ CmdXenHypervisor(Params)
  \/ CmdXenModule(Params)
  \/ Boot
  \/ LoaderUnset
  \/ OtherLoaderSet

SpecParams == Init /\ [][NextParams]_vars

\* Placement: the arithmetic of xen_boot_binary_load and single_binary_unload
\* on its own.  Slot 1 holds a record whose start, size and align are the
\* inputs: any address, any file size, any value of the header's
\* section_alignment field (powers of two or not).  The values are far from
\* the top of the address space, as the addresses of memory and a 32-bit
\* header field are, so no sum wraps.
PlaceStarts == {0, 1, 4095, 4096, 69632, 69633, 90112, 1048576}
PlaceSizes == {0, 1, 4096, 5000}
PlaceAligns == {0, 1, 3, 4096, 8192, 12288, 65536}

InitPlace ==
  /\ \E st \in PlaceStarts, sz \in PlaceSizes, al \in PlaceAligns :
       heap = [i \in Ids |->
                 IF i = 1
                 THEN [ZeroRec EXCEPT !.start = st, !.size = sz, !.align = al]
                 ELSE ZeroRec]
  /\ live = {1}
  /\ pgLive = {}
  /\ cmdLive = {}
  /\ xen_hypervisor = NULL
  /\ module_head = NULL
  /\ loaded = 0
  /\ loader = "none"
  /\ refcnt = 0
  /\ ret = "NONE"
  /\ last = [cmd |-> "init", path |-> ""]
  /\ log = <<>>
  /\ blob = <<>>
  /\ uaf = 0
  /\ badFree = 0
  /\ mode = "run"

\* the three calls the record's placement goes into: the allocation
\* (lines 389-393), the image read (lines 403-405), the release (lines 328-329)
Place ==
  /\ last.cmd = "init"
  /\ log' = <<Ev("allocate_pages", heap[1].start, pages_to_allocate(heap[1])),
              Ev("file_read", read_address(heap[1]), heap[1].size),
              Ev("free_pages", heap[1].start, pages_to_free(heap[1]))>>
  /\ last' = [cmd |-> "place", path |-> ""]
  /\ UNCHANGED <<heap, live, pgLive, cmdLive, xen_hypervisor, module_head,
                 loaded, loader, refcnt, ret, blob, uaf, badFree, mode>>

NextPlace == Place

SpecPlace == InitPlace /\ [][NextPlace]_vars

\* Assembly: finalize_params_xen_boot on its own.  In the program its one
\* caller is xen_boot, the boot hook, which is registered only while a
\* hypervisor is staged; here the function is called on the registry as the
\* commands and the unload leave it, the empty one included, so that what it
\* does with an empty hypervisor slot is exercised.
FinalizeParams ==
  /\ mode = "run"
  /\ \E fdtFail \in 0..(4 + 5 * Len(Modules(heap, module_head))) :
       \E r \in Outcomes(LAMBDA s : finalize_params_xen_boot(s), fdtFail) :
         Commit(r, "finalize")

NextFinalize ==
  \/ CmdXenHypervisor(Booting)
  \/ CmdXenModule(Booting)
  \/ LoaderUnset
  \/ FinalizeParams

SpecFinalize == Init /\ [][NextFinalize]_vars

\* Loading: xen_boot_binary_load on its own, from the states its two callers
\* call it in.  grub_cmd_xen_hypervisor (line 550): the record was just
\* allocated in slot 1, named and given the header's alignment, and is in the
\* hypervisor slot.  grub_cmd_xen_module (line 498): a hypervisor is staged
\* in slot 1 and the record, in slot 2, has the node_info, name and
\* alignment of its type and is not in the list yet.
LoadSizes == {0, 1, 4096, 5000, 8192, 12288}

HypervisorAtLoad(a) ==
  [ZeroRec EXCEPT !.name = XEN_HYPERVISOR_NAME, !.align = a]

ModuleAtLoad(type) ==
  [ZeroRec EXCEPT !.type = type,
                  !.compat_string = default_compat_string(type).compat_string,
                  !.compat_string_size = default_compat_string(type).size,
                  !.name = default_compat_string(type).compat_string,
                  !.align = module_default_align(type)]

InitLoad ==
  /\ \/ \E a \in HypAligns :
          /\ heap = [i \in Ids |-> IF i = 1 THEN HypervisorAtLoad(a)
                                   ELSE ZeroRec]
          /\ live = {1}
          /\ pgLive = {}
          /\ loaded = 0
          /\ loader = "none"
     \/ \E type \in {"MODULE_IMAGE", "MODULE_INITRD", "MODULE_XSM"} :
          /\ heap = [i \in Ids |->
                       IF i = 1
                       THEN [HypervisorAtLoad(8192) EXCEPT !.start = 69632,
                                                           !.size = 5000]
                       ELSE IF i = 2 THEN ModuleAtLoad(type)
                       ELSE ZeroRec]
          /\ live = {1, 2}
          /\ pgLive = {69632}
          /\ loaded = 1
          /\ loader = "xen"
  /\ cmdLive = {}
  /\ xen_hypervisor = 1
  /\ module_head = NULL
  /\ refcnt = 1
  /\ ret = "NONE"
  /\ last = [cmd |-> "init", path |-> ""]
  /\ log = <<>>
  /\ blob = <<>>
  /\ uaf = 0
  /\ badFree = 0
  /\ mode = "run"

\* the record the call is made on
LoadTarget == IF loaded = 1 THEN 2 ELSE 1

\* one call of xen_boot_binary_load; what it left in grub_errno is kept in ret
BinaryLoad ==
  /\ last.cmd = "init"
  /\ \E in \in LoadInputs(LoadSizes, {1, 2}, TRUE) :
       \E r \in Outcomes(
                  LAMBDA s : xen_boot_binary_load(s, LoadTarget, in), 0) :
         Commit([r EXCEPT !.ret = r.grub_errno], "load")

NextLoad == BinaryLoad

SpecLoad == InitLoad /\ [][NextLoad]_vars

(* ------------------------------ properties ---------------------------- *)
\* the records of the module list, in list order
Staged == Modules(heap, module_head)

\* A well-formed registry: the hypervisor record and every module record are
\* allocated, and nothing else is.
ProperRegistry ==
  /\ xen_hypervisor \in live
  /\ live = {xen_hypervisor} \cup SeqSet(Staged)
  /\ loaded = 1

\* nothing is allocated and nothing is staged
NothingHeld == live = {} /\ pgLive = {} /\ cmdLive = {}

\* C1: when the unload hook runs all_binaries_unload on a well-formed registry
\* (a hypervisor record and N >= 0 module records), every record is released
\* exactly once (no read of a freed record, no free of storage that is not
\* allocated, nothing left allocated) and the module list is empty afterwards.
C1_ReleaseAllOnce ==
  [][(last'.cmd = "unset" /\ loader = "xen" /\ ProperRegistry)
       => /\ uaf' = 0
          /\ badFree' = 0
          /\ module_head' = NULL
          /\ NothingHeld']_vars

\* C1, the state the claim excludes: the unload hook has run and a module
\* record is still in the list, with its pages still held
C1_ModuleLeftBehind ==
  /\ last = [cmd |-> "unset", path |-> "xen"]
  /\ module_head # NULL
  /\ module_head \in live
  /\ heap[module_head].start \in pgLive
  /\ uaf > 0

\* C2: a xen_hypervisor command that succeeds on a well-formed registry (a
\* hypervisor and any number of modules staged) leaves a registry that holds
\* the second hypervisor only: no module of the earlier session is in the
\* list, nothing of the earlier session is still allocated, and no freed
\* record was read on the way.
C2_SecondHypervisorReplacesSession ==
  [][(last'.cmd = "xen_hypervisor" /\ last'.path = "ok" /\ ret' = "NONE"
      /\ loader = "xen" /\ ProperRegistry)
       => /\ module_head' = NULL
          /\ live' = {xen_hypervisor'}
          /\ pgLive' = {heap'[xen_hypervisor'].start}
          /\ uaf' = 0
          /\ badFree' = 0]_vars

\* C2, the state the claim excludes: a second hypervisor was staged and a
\* module of the earlier session is still in the list
C2_EarlierModuleSurvives ==
  /\ last = [cmd |-> "xen_hypervisor", path |-> "ok"]
  /\ ret = "NONE"
  /\ loaded = 1
  /\ module_head # NULL
  /\ uaf > 0

\* C3: every failure of the xen_hypervisor command returns an error and leaves
\* the system idle: the hypervisor slot is empty, the module list is empty,
\* loaded is 0 and nothing staged before the command is still allocated.
C3_HypervisorFailureRollsBack ==
  [][(last'.cmd = "xen_hypervisor" /\ last'.path # "ok")
       => /\ ret' # "NONE"
          /\ xen_hypervisor' = NULL
          /\ module_head' = NULL
          /\ loaded' = 0
          /\ NothingHeld']_vars

\* C3, the state the claim excludes: the command failed and the hypervisor
\* slot still refers to a record, which has been freed
C3_DanglingSlot ==
  /\ last.cmd = "xen_hypervisor"
  /\ ret # "NONE"
  /\ xen_hypervisor # NULL
  /\ xen_hypervisor \notin live
  /\ loader = "xen"

\* C4: a xen_hypervisor command whose image fails the format check leaves the
\* registry empty and frees nothing: it reads no freed record, frees no
\* storage that is not allocated, and every allocation made before the command
\* is still held.
C4_FormatCheckFailureFreesNothing ==
  [][(last'.cmd = "xen_hypervisor" /\ last'.path = "check")
       => /\ xen_hypervisor' = NULL
          /\ module_head' = NULL
          /\ uaf' = 0
          /\ badFree' = 0
          /\ live' = live
          /\ pgLive' = pgLive
          /\ cmdLive' = cmdLive]_vars

\* C4, the state the claim excludes: the format check failed and the command
\* freed storage that was not allocated
C4_FreedTwice ==
  /\ last = [cmd |-> "xen_hypervisor", path |-> "check"]
  /\ badFree > 0
  /\ uaf > 0

\* C5: a module command issued while loaded is 0 returns BAD_ARGUMENT and
\* changes nothing: the hypervisor slot, the module list, every record, the
\* loaded flag, the loader registration, the reference count and the
\* allocations are what they were, and nothing is read or freed.
C5_ModuleWithoutHypervisor ==
  [][(last'.cmd = "xen_module" /\ loaded = 0)
       => /\ ret' = "BAD_ARGUMENT"
          /\ uaf' = 0
          /\ badFree' = 0
          /\ UNCHANGED <<heap, live, pgLive, cmdLive, xen_hypervisor,
                         module_head, loaded, loader, refcnt, mode>>]_vars

\* C5, its case: a module command was refused for want of a hypervisor in a
\* state an earlier unload or failed load left behind (the slot still refers
\* to the released record)
C5_RefusedAfterUnload ==
  /\ last = [cmd |-> "xen_module", path |-> "notloaded"]
  /\ ret = "BAD_ARGUMENT"
  /\ loaded = 0
  /\ xen_hypervisor # NULL

\* C6: when a module command fails while a hypervisor is staged, the
\* hypervisor slot and record, the module list (the same records in the same
\* order), every staged module record and its allocations, the loaded flag and
\* the loader registration are unchanged, and the failed module is not in the
\* list.
C6_ModuleFailureFrame ==
  [][(last'.cmd = "xen_module" /\ loaded = 1 /\ ret' # "NONE")
       => /\ xen_hypervisor' = xen_hypervisor
          /\ xen_hypervisor \in live'
          /\ heap'[xen_hypervisor] = heap[xen_hypervisor]
          /\ Staged' = Staged
          /\ \A m \in SeqSet(Staged) :
               /\ heap'[m] = heap[m]
               /\ m \in live'
               /\ heap[m].start \in pgLive'
               /\ heap[m].cmdline # NULL => heap[m].cmdline \in cmdLive'
          /\ heap[xen_hypervisor].start \in pgLive'
          /\ loaded' = 1
          /\ loader' = loader
          /\ live' = live]_vars

\* C6, its case: a module command failed after its pages were granted, while
\* a hypervisor and an earlier module were staged
C6_FailedBesideStagedModule ==
  /\ last.cmd = "xen_module"
  /\ last.path \in {"read", "cmdalloc"}
  /\ ret # "NONE"
  /\ loaded = 1
  /\ Len(Staged) >= 1
  /\ heap[module_head].cmdline # NULL

\* C7: when the image read comes back short or the command-line buffer is
\* refused, the binary's pages are released exactly once and its record is
\* neither read nor freed after its storage was released: the command frees
\* nothing that is not allocated, reads no freed record, and holds no pages
\* it did not hold before.
C7_PartialLoadReleasedOnce ==
  [][(last'.cmd \in {"xen_module", "xen_hypervisor"}
      /\ last'.path \in {"read", "cmdalloc"})
       => /\ badFree' = 0
          /\ uaf' = 0
          /\ pgLive' \subseteq pgLive]_vars

\* C7, the state the claim excludes: a module's image read came back short
\* and its pages and record were freed a second time
C7_ReleasedTwice ==
  /\ last = [cmd |-> "xen_module", path |-> "read"]
  /\ badFree >= 2
  /\ uaf >= 1

\* the control-transfer call the last command made, if any
BootCalls == {i \in 1..Len(log) : log[i].op = "boot_image"}

\* C8: on a successful boot the control transfer received the hypervisor's
\* aligned address xen_boot_address_align (start, align), its size and its
\* boot arguments.
C8_BootAtAlignedAddress ==
  (last.cmd = "boot" /\ mode = "booted")
    => \E i \in BootCalls :
         /\ log[i].a = xen_boot_address_align(heap[xen_hypervisor].start,
                                              heap[xen_hypervisor].align)
         /\ log[i].b = heap[xen_hypervisor].size
         /\ log[i + 1] = Ev("boot_args", heap[xen_hypervisor].cmdline,
                            heap[xen_hypervisor].cmdline_size)

\* C8, the state the claim excludes: control was transferred to an address
\* that is not the one the image was read into
C8_BootAtRawAddress ==
  /\ mode = "booted"
  /\ xen_hypervisor \in live
  /\ \E i \in BootCalls :
       /\ log[i].a = heap[xen_hypervisor].start
       /\ log[i].a # xen_boot_address_align(heap[xen_hypervisor].start,
                                            heap[xen_hypervisor].align)

\* how many calls named op the last command made
Count(q, op) == Cardinality({i \in 1..Len(q) : q[i].op = op})

\* the paths of xen_boot on which the assembly failed
AssemblyFailures == {"fdt_load", "nohyp", "hyp", "module", "info", "install"}

\* the blob holds the reg property of module m, under the node named after
\* its aligned address
Written(m) ==
  \E k \in 1..Len(blob) :
    /\ blob[k].node = module_name(xen_boot_address_align(heap[m].start,
                                                         heap[m].align))
    /\ blob[k].prop = "reg"
    /\ blob[k].b = heap[m].size

\* C9: a control-transfer call is preceded, in the same boot attempt, by an
\* assembly that created the blob, wrote the hypervisor's boot arguments and
\* every staged module into it and installed it; when the assembly fails the
\* control transfer is not called and xen_boot returns the error.
C9_AssemblyBeforeTransfer ==
  last.cmd = "boot" =>
    /\ BootCalls # {} =>
         /\ log[1].op = "fdt_load"
         /\ log[2].op = "fdt_install"
         /\ BootCalls = {3}
         /\ Len(blob) >= 1
         /\ blob[1] = Prop(<<"chosen">>, "bootargs", "",
                           heap[xen_hypervisor].cmdline,
                           heap[xen_hypervisor].cmdline_size)
         /\ \A m \in SeqSet(Staged) : Written(m)
         /\ last.path \in {"returned", "booted"}
    /\ last.path \in AssemblyFailures =>
         /\ BootCalls = {}
         /\ ret = "IO"
         /\ mode = "run"

\* C9, its case: control was transferred with two modules staged
C9_BootedWithModules ==
  /\ last = [cmd |-> "boot", path |-> "booted"]
  /\ mode = "booted"
  /\ Len(Staged) = 2
  /\ BootCalls # {}

\* C10: once finalize_params_xen_boot has obtained the blob, a failure of any
\* later step discards the blob exactly once and returns the IO error; when
\* every step succeeds the blob is installed and not discarded; when the blob
\* could not be obtained there is nothing to discard.
C10_BlobDiscardedOnce ==
  last.cmd = "boot" =>
    /\ last.path \in AssemblyFailures \ {"fdt_load"} =>
         /\ Count(log, "fdt_load") = 1
         /\ Count(log, "fdt_unload") = 1
         /\ Count(log, "fdt_install") = 0
         /\ blob = <<>>
         /\ ret = "IO"
    /\ last.path \in {"returned", "booted"} =>
         /\ Count(log, "fdt_load") = 1
         /\ Count(log, "fdt_unload") = 0
         /\ Count(log, "fdt_install") = 1
         /\ blob # <<>>
    /\ last.path = "fdt_load" =>
         /\ Count(log, "fdt_unload") = 0
         /\ ret = "IO"
    /\ last.path \in AssemblyFailures \cup {"returned", "booted"}

\* C10, its case: the assembly met a module of zero size after it had written
\* an earlier module, and discarded the blob
C10_DiscardedAtEmptyModule ==
  /\ last = [cmd |-> "boot", path |-> "info"]
  /\ Len(Staged) = 2
  /\ heap[Staged[1]].size > 0
  /\ heap[Staged[2]].size = 0
  /\ Count(log, "fdt_unload") = 1
  /\ ret = "IO"

C12_ImageInsideAllocation ==
  (last.cmd = "place" /\ heap[1].start % 4096 = 0) =>
    /\ log[2].a >= log[1].a
    /\ log[2].a + log[2].b <= log[1].a + 4096 * log[1].b
    /\ log[3].a = log[1].a
    /\ log[3].b = log[1].b

\* C12, its case: the base is not a multiple of the alignment, so the image
\* starts inside the allocation and ends in its last page
C12_ImageAfterSlack ==
  /\ last.cmd = "place"
  /\ heap[1].start = 69632
  /\ heap[1].align = 8192
  /\ heap[1].size = 5000
  /\ log[1].b = 4
  /\ log[2].a = 73728

\* the number a sequence of lowercase hexadecimal digits denotes, -1 when a
\* character is not such a digit
HexDigits == <<"0", "1", "2", "3", "4", "5", "6", "7", "8", "9",
               "a", "b", "c", "d", "e", "f">>

RECURSIVE HexValue(_)
HexValue(q) ==
  IF q = <<>> THEN 0
  ELSE IF \E d \in 1..16 : HexDigits[d] = q[Len(q)]
  THEN 16 * HexValue(SubSeq(q, 1, Len(q) - 1))
       + (CHOOSE d \in 1..16 : HexDigits[d] = q[Len(q)]) - 1
  ELSE 0 - 1048576

\* the properties of name bootargs written to node
BootargsOf(node) ==
  {i \in 1..Len(blob) : blob[i].node = node /\ blob[i].prop = "bootargs"}

\* C13: after a successful assembly the chosen node's bootargs has the
\* hypervisor's command line and its length, and every module of the list
\* has a node named module@ followed by the lowercase hexadecimal digits of
\* its aligned address, with compatible the default string of its category,
\* reg its aligned address and size, and a bootargs of the command line's
\* length plus one exactly when it has a command line that is not empty.
C13_NodesDescribeRegistry ==
  (last.cmd = "boot" /\ last.path \in {"booted", "returned"}) =>
    /\ BootargsOf(<<"chosen">>) # {}
    /\ \A i \in BootargsOf(<<"chosen">>) :
         /\ blob[i].a = heap[xen_hypervisor].cmdline
         /\ blob[i].b = heap[xen_hypervisor].cmdline_size
    /\ \A k \in SeqSet(Modules(heap, module_head)) :
         \E name \in {blob[i].node : i \in 1..Len(blob)} :
           /\ Len(name) > 1
           /\ name[1] = "module@"
           /\ HexValue(Tail(name))
                = xen_boot_address_align(heap[k].start, heap[k].align)
           /\ name[2] # "0"
           /\ Prop(name, "compatible",
                   default_compat_string(heap[k].type).compat_string,
                   default_compat_string(heap[k].type).size, 0)
                \in SeqSet(blob)
           /\ Prop(name, "reg", "",
                   xen_boot_address_align(heap[k].start, heap[k].align),
                   heap[k].size) \in SeqSet(blob)
           /\ (heap[k].cmdline # NULL /\ heap[k].cmdline_size > 0)
                <=> BootargsOf(name) # {}
           /\ \A i \in BootargsOf(name) :
                /\ blob[i].a = heap[k].cmdline
                /\ blob[i].b = heap[k].cmdline_size + 1

\* C13, its case: the assembly succeeded with the hypervisor's command line,
\* an initrd with a command line at 0x16000 and a kernel image without one
C13_TwoKindsOfModule ==
  /\ last.cmd = "boot"
  /\ last.path = "booted"
  /\ heap[xen_hypervisor].cmdline_size = 6
  /\ \E k \in SeqSet(Modules(heap, module_head)) :
       /\ heap[k].type = "MODULE_INITRD"
       /\ heap[k].cmdline_size = 6
       /\ Prop(<<"module@", "1", "6", "0", "0", "0">>, "bootargs", "",
               heap[k].cmdline, 7) \in SeqSet(blob)
  /\ \E k \in SeqSet(Modules(heap, module_head)) :
       /\ heap[k].type = "MODULE_IMAGE"
       /\ heap[k].cmdline = NULL
  /\ Len(blob) = 6

\* a step that runs all_binaries_unload: the fail: path of xen_hypervisor
\* with an error set, or the unload hook
ReleaseAllStep ==
  \/ /\ last'.cmd = "xen_hypervisor"
     /\ last'.path \in {"noarg", "open", "hdr", "check"}
     /\ ret' # "NONE"
  \/ /\ last'.cmd \in {"unset", "other"}
     /\ loader = "xen"

\* all_binaries_unload ran in the last command and nothing is held
RegistryEmptied ==
  /\ \/ last.cmd = "xen_hypervisor" /\ ret # "NONE"
     \/ last.cmd \in {"unset", "other"} /\ last.path = "xen"
  /\ mode = "run"
  /\ module_head = NULL
  /\ live = {}
  /\ pgLive = {}
  /\ cmdLive = {}

\* C14: when all_binaries_unload has emptied the registry, running it again
\* reads no released record and frees nothing.
C14_SecondReleaseIsNoOp ==
  [][(RegistryEmptied /\ ReleaseAllStep) =>
       (uaf' = 0 /\ badFree' = 0 /\ mode' = "run")]_vars

\* C14, its case: the unload hook ran over a registry that a failed
\* xen_hypervisor had emptied, and freed the hypervisor record again
C14_ReleasedAgain ==
  /\ last.cmd = "unset"
  /\ last.path = "xen"
  /\ module_head = NULL
  /\ live = {}
  /\ xen_hypervisor # NULL
  /\ uaf > 0
  /\ badFree > 0

\* the reg properties of the blob, in the order they were written
RegWrites(b) == SelectSeq(b, LAMBDA e : e.prop = "reg")

Held == (SeqSet(Modules(heap, module_head)) \cup {xen_hypervisor}) \cap live

\* C16: every record the registry holds after a load has a location that
\* is not zero and a size above zero, whatever the image was, so the
\* assembly never takes its 'module info error' branch.
C16_StagedRecordsHaveImages ==
  /\ \A k \in Held : heap[k].start # 0 /\ heap[k].size > 0
  /\ ~(last.cmd = "boot" /\ last.path = "info")

\* C16, its case: a module read from an empty file is in the list with a
\* location and size 0, and the assembly stopped at it
C16_EmptyModuleAtBoot ==
  /\ last.cmd = "boot"
  /\ last.path = "info"
  /\ ret = "IO"
  /\ \E k \in Held : heap[k].start # 0 /\ heap[k].size = 0
  /\ uaf = 0

\* the fields the loading of an image sets
Placement(r) ==
  [start |-> r.start, size |-> r.size, align |-> r.align,
   cmdline |-> r.cmdline, cmdline_size |-> r.cmdline_size]

\* C17: when the page allocator returns nothing, xen_boot_binary_load
\* reports OUT_OF_MEMORY and the record's location, size, alignment, command
\* line and command-line length are what they were when it was called.
C17_RefusedLoadLeavesRecord ==
  [][(last'.cmd = "load" /\ last'.path = "pagealloc") =>
       /\ ret' = "OUT_OF_MEMORY"
       /\ Placement(heap'[LoadTarget]) = Placement(heap[LoadTarget])]_vars

\* C17, its case: the allocator returned nothing for a module of 5000 bytes
\* and the record, still allocated, has the size of the file
C17_SizeKeptAfterRefusal ==
  /\ last.cmd = "load"
  /\ last.path = "pagealloc"
  /\ ret = "OUT_OF_MEMORY"
  /\ 2 \in live
  /\ heap[2].start = 0
  /\ heap[2].size = 5000

C19_HookImpliesStagedHypervisor ==
  (mode = "run" /\ loader = "xen") =>
    /\ loaded = 1
    /\ xen_hypervisor # NULL
    /\ xen_hypervisor \in live

\* C19, its case: with xen_boot still registered after a failed
\* xen_hypervisor released the staged hypervisor, the boot hook ran and
\* transferred control through the released record
C19_BootedReleasedHypervisor ==
  /\ last.cmd = "boot"
  /\ last.path = "booted"
  /\ loaded = 0
  /\ xen_hypervisor # NULL
  /\ xen_hypervisor \notin live
  /\ uaf > 0

\* C20: after every command the references taken with grub_dl_ref and not
\* given back with grub_dl_unref number 1 while the xen loader hooks are
\* registered and 0 otherwise.
C20_ReferencesBalanced ==
  mode = "run" => refcnt = (IF loader = "xen" THEN 1 ELSE 0)

\* C20, its case: the header read of xen_hypervisor came back short without
\* an error; the command returned success with its reference kept and no
\* hooks registered
C20_ReferenceKeptAfterShortRead ==
  /\ last.cmd = "xen_hypervisor"
  /\ last.path = "hdr"
  /\ ret = "NONE"
  /\ loader = "none"
  /\ refcnt = 1

====
